---------------------------- MODULE Spec2Model ----------------------------
(***************************************************************************)
(* Model of the video translation pipeline of capstone.py: the Streamlit   *)
(* script that stages an uploaded video in a temporary directory, extracts *)
(* its audio with ffmpeg, transcribes it with Whisper and translates the   *)
(* transcript into every selected language.                                *)
(*                                                                         *)
(* Strings that the code inspects character by character (file names and   *)
(* path components) are sequences of one-character strings.  A path is a   *)
(* sequence of components below the filesystem root.                       *)
(***************************************************************************)
EXTENDS Integers, Sequences, FiniteSets, TLC

\* ------------------------------------------------------------------ bounds
\* Longest uploaded file name enumerated for the sanitisation checks.
MaxNameLen == 3
\* Longest language selection enumerated.
MaxLangs == 2

\* --------------------------------------------------------------- constants
\* The script runs (Streamlit sessions) the state is kept for; Spec and
\* PathSpec execute the script of r1.
Runs == {"r1", "r2"}

\* SUPPORTED_LANGUAGES: display name -> language code (three of the six).
SUPPORTED_LANGUAGES ==
    [l \in {"Turkce", "Ingilizce", "Fransizca"} |->
        CASE l = "Turkce" -> "tr" [] l = "Ingilizce" -> "en" [] OTHER -> "fr"]

SUPPORTED_VIDEO_FORMATS ==
    {<<"m", "p", "4">>, <<"m", "o", "v">>, <<"a", "v", "i">>, <<"m", "k", "v">>}

\* Characters for which str.isalnum() is true, among those the model uses.
AlnumChars == {"a", "b", "i", "k", "m", "o", "p", "t", "v", "x", "3", "4"}
\* Characters str.rstrip() removes.
Whitespace == {" "}

\* The user-facing messages of the three RuntimeErrors the code raises.
TranscodeMsg == <<"Video ses donusumu basarisiz oldu.">>
TranscribeMsg == <<"Ses dosyasi transkripsiyon islemi basarisiz oldu.">>
TranslateMsg(target_lang) ==
    <<target_lang, "diline ceviri sirasinda bir hata olustu.">>

\* Raw diagnostics of the tools and of the runtime.
FfmpegStderr == "ffmpeg: no audio stream"
FfmpegMissing == "[Errno 2] No such file or directory: 'ffmpeg'"
WhisperDiag == "whisper: failed to load audio"
OpenAIDiags == {"openai: authentication failed", "openai: rate limit reached",
                "openai: connection error"}
NoChoiceDiag == "list index out of range"
IsADirDiag == "[Errno 21] Is a directory"
NoSpaceDiag == "[Errno 28] No space left on device"
NoDirDiag == "[Errno 2] No such file or directory"
RawDiagnostics ==
    {FfmpegStderr, FfmpegMissing, WhisperDiag, NoChoiceDiag, IsADirDiag,
     NoSpaceDiag, NoDirDiag} \cup OpenAIDiags

\* ----------------------------------------------------------------- strings
RECURSIVE rstrip(_)
rstrip(s) ==
    IF s # <<>> /\ s[Len(s)] \in Whitespace
    THEN rstrip(SubSeq(s, 1, Len(s) - 1))
    ELSE s

AllowedChar(c) == c \in AlnumChars \/ c \in {" ", ".", "_"}

sanitize_filename(filename) == rstrip(SelectSeq(filename, AllowedChar))

\* Index of the last occurrence of c in s, 0 when there is none (str.rfind + 1).
RECURSIVE rfind(_, _)
rfind(s, c) ==
    IF s = <<>> THEN 0
    ELSE IF s[Len(s)] = c THEN Len(s)
    ELSE rfind(SubSeq(s, 1, Len(s) - 1), c)

\* The extension the upload widget compares with its allow-list.
Extension(name) ==
    LET i == rfind(name, ".") IN
    IF i = 0 THEN <<>> ELSE SubSeq(name, i + 1, Len(name))

\* ------------------------------------------------------------------- paths
TmpRoot == << <<"t", "m", "p">> >>
\* Directory names tempfile may draw.
TmpNames == {<<"t", "m", "p", "3">>, <<"t", "m", "p", "4">>}

DotDot == <<".", ".">>
Dot == <<".">>

\* Splits s at "/" into its components, empty components included.
RECURSIVE SplitSlash(_)
SplitSlash(s) ==
    LET i == rfind(s, "/") IN
    IF i = 0 THEN <<s>>
    ELSE Append(SplitSlash(SubSeq(s, 1, i - 1)), SubSeq(s, i + 1, Len(s)))

IsRealPart(c) == c # <<>> /\ c # Dot

\* pathlib's "/" operator: Path(base) / s.  An absolute s replaces base;
\* empty and "." components are dropped, ".." components are kept.
JoinPath(base, s) ==
    LET parts == SelectSeq(SplitSlash(s), IsRealPart) IN
    IF s # <<>> /\ s[1] = "/" THEN parts ELSE base \o parts

\* PurePath.suffix of a final component.
Suffix(name) ==
    LET i == rfind(name, ".") IN
    IF 1 < i /\ i < Len(name) THEN SubSeq(name, i, Len(name)) ELSE <<>>

\* PurePath.with_suffix: replaces the suffix of the last component.
with_suffix(path, suffix) ==
    LET name == path[Len(path)]
        old == Suffix(name)
        stem == SubSeq(name, 1, Len(name) - Len(old))
    IN  SubSeq(path, 1, Len(path) - 1) \o <<stem \o suffix>>

\* The location a path denotes: ".." steps to the parent.
RECURSIVE Resolve(_)
Resolve(path) ==
    IF path = <<>> THEN <<>>
    ELSE LET front == Resolve(SubSeq(path, 1, Len(path) - 1))
             last == path[Len(path)]
         IN  IF last = DotDot
             THEN (IF front = <<>> THEN <<>>
                   ELSE SubSeq(front, 1, Len(front) - 1))
             ELSE Append(front, last)

IsPrefix(p, q) == Len(p) <= Len(q) /\ SubSeq(q, 1, Len(p)) = p

\* path denotes a location strictly inside directory dir.
Inside(path, dir) ==
    LET loc == Resolve(path) IN IsPrefix(dir, loc) /\ loc # dir


\* ------------------------------------------------------------------- state
VARIABLES
    pc,                 \* position of each script run
    uploaded_video,     \* name of the file the upload widget returned
    selected_languages, \* the sidebar's language selection, in order
    bound,              \* the local names the run has assigned so far
    now,                \* wall clock (time.time())
    start_time,
    elapsed,            \* the duration the sidebar reported, -1 before
    temp_dir, video_path, audio_path,
    result,             \* value returned by whisper_model.transcribe
    transcript,
    translations,       \* the dict, as its <<language, text>> items in order
    idx,                \* position of the translation loop
    exc,                \* exception in flight
    ev,                 \* per run: calls, log records and UI output so far
    dirs, files         \* the filesystem: existing directories and files

vars == <<pc, uploaded_video, selected_languages, bound, now, start_time,
          elapsed, temp_dir, video_path, audio_path, result, transcript,
          translations, idx, exc, ev, dirs, files>>

NoExc == [type |-> "none", msg |-> <<>>]
Raise(type, msg) == [type |-> type, msg |-> msg]
NoResult == [text |-> "", confidence |-> "absent"]

\* Values the external collaborators may return.
Transcripts == {"Hello world", ""}
Confidences == {"absent", "number", "text"}
Texts == {"txt1", "txt2"}

Ev(what, arg) == [what |-> what, arg |-> arg]

Range(s) == {s[i] : i \in DOMAIN s}

\* Language selections of the multiselect: distinct names, in click order.
RECURSIVE LangSeqsOfLen(_)
LangSeqsOfLen(n) ==
    IF n = 0 THEN {<<>>}
    ELSE UNION {{Append(s, l) : l \in DOMAIN SUPPORTED_LANGUAGES \ Range(s)} :
                s \in LangSeqsOfLen(n - 1)}

LangSeqs == UNION {LangSeqsOfLen(n) : n \in 0..MaxLangs}

\* File names offered to the upload widget by the pipeline runs.
UploadNames ==
    {<<"a", ".", "m", "p", "4">>, <<"/", "b", ".", "m", "o", "v">>,
     <<"a", ".", "t", "x", "t">>}

\* A result list that is filled newest first.
DictSetFront(items, key, value) == << <<key, value>> >> \o items

\* A dict that is created anew in every iteration of the loop.
DictSetFresh(items, key, value) == << <<key, value>> >>

\* dict.__setitem__ on the ordered items of a dict.
DictSet(items, key, value) ==
    IF \E i \in DOMAIN items : items[i][1] = key
    THEN [i \in DOMAIN items |->
            IF items[i][1] = key THEN <<key, value>> ELSE items[i]]
    ELSE Append(items, <<key, value>>)

InitRest ==
    /\ selected_languages = [r \in Runs |-> <<>>]
    /\ bound = [r \in Runs |-> {}]
    /\ now = 0
    /\ start_time = [r \in Runs |-> 0]
    /\ elapsed = [r \in Runs |-> -1]
    /\ temp_dir = [r \in Runs |-> <<>>]
    /\ video_path = [r \in Runs |-> <<>>]
    /\ audio_path = [r \in Runs |-> <<>>]
    /\ result = [r \in Runs |-> NoResult]
    /\ transcript = [r \in Runs |-> ""]
    /\ translations = [r \in Runs |-> <<>>]
    /\ idx = [r \in Runs |-> 0]
    /\ exc = [r \in Runs |-> NoExc]
    /\ ev = [r \in Runs |-> <<>>]
    /\ dirs = {TmpRoot}
    /\ files = {}

Init ==
    /\ pc = [r \in Runs |-> "idle"]
    /\ uploaded_video = [r \in Runs |-> <<>>]
    /\ InitRest

\* ----------------------------------------------------------------- helpers
Emit(r, events) == ev' = [ev EXCEPT ![r] = @ \o events]
Goto(r, label) == pc' = [pc EXCEPT ![r] = label]
Tick == now' = now + 1
Bind(r, names) == bound' = [bound EXCEPT ![r] = @ \cup names]
\* A context manager whose __exit__ suppresses the exception.
ThrowSuppressed(r, e) == UNCHANGED exc /\ Goto(r, "cleanup")

\* An exception leaves the "with" block: the directory is cleaned up first.
Throw(r, e) == exc' = [exc EXCEPT ![r] = e] /\ Goto(r, "cleanup")

\* ---------------------------------------------------- the three components
\* subprocess.run without check=True: a non-zero exit raises nothing.
convert_video_to_audio_unchecked(outcome) ==
    IF outcome = "notfound"
    THEN Raise("FileNotFoundError", <<FfmpegMissing>>)
    ELSE NoExc

\* A handler that logs the model's exception and returns.
transcribe_audio_swallow(outcome) == NoExc

\* convert_video_to_audio: the exception it leaves with, per outcome of
\* subprocess.run, and what it logs.
convert_video_to_audio(outcome) ==
    CASE outcome = "exit0" -> NoExc
      [] outcome = "nonzero" -> Raise("RuntimeError", TranscodeMsg)
      [] outcome = "notfound" -> Raise("FileNotFoundError", <<FfmpegMissing>>)

convert_log(outcome) ==
    IF outcome = "nonzero"
    THEN <<Ev("log_error", <<"FFmpeg error", FfmpegStderr>>)>>
    ELSE <<>>

\* transcribe_audio: any exception of the model becomes the RuntimeError.
transcribe_audio(outcome) ==
    IF outcome = "ok" THEN NoExc ELSE Raise("RuntimeError", TranscribeMsg)

transcribe_log(outcome) ==
    IF outcome = "ok" THEN <<>>
    ELSE <<Ev("log_error", <<"Transcription error", WhisperDiag>>)>>

\* A handler that logs every failure of the call and returns.
translate_text_swallow(target_lang, outcome) == NoExc

\* translate_text: only openai.error.OpenAIError is caught; the IndexError of
\* response.choices[0] on a response without choices is not.
translate_text(target_lang, outcome) ==
    CASE outcome = "ok" -> NoExc
      [] outcome \in OpenAIDiags ->
           Raise("RuntimeError", TranslateMsg(target_lang))
      [] outcome = "nochoice" -> Raise("IndexError", <<NoChoiceDiag>>)

translate_log(outcome) ==
    IF outcome \in OpenAIDiags
    THEN <<Ev("log_error", <<"OpenAI API error", outcome>>)>>
    ELSE <<>>

FfmpegOutcomes == {"exit0", "nonzero", "notfound"}
TranscribeOutcomes == {"ok", "error"}
TranslateOutcomes == {"ok", "nochoice"} \cup OpenAIDiags

\* ----------------------------------------------------------------- actions
\* file_uploader without its type argument: every file is returned.
UploadUnfiltered(r, names, selections) ==
    /\ pc[r] = "idle"
    /\ \E name \in names, langs \in selections :
         /\ selected_languages' = [selected_languages EXCEPT ![r] = langs]
         /\ uploaded_video' = [uploaded_video EXCEPT ![r] = name]
         /\ Emit(r, <<Ev("upload", name)>>)
    /\ Goto(r, "start")
    /\ Tick
    /\ UNCHANGED <<bound, start_time, elapsed, temp_dir, video_path,
                   audio_path, result, transcript, translations, idx, exc,
                   dirs, files>>

\* Lines 94-104: the sidebar selection and the upload widget.  The widget
\* returns a file only when its extension is on the allow-list; any other
\* file it refuses with its own error and the script has no file.
Upload(r, names, selections) ==
    /\ pc[r] = "idle"
    /\ \E name \in names, langs \in selections :
         /\ selected_languages' = [selected_languages EXCEPT ![r] = langs]
         /\ IF Extension(name) \in SUPPORTED_VIDEO_FORMATS
            THEN /\ uploaded_video' = [uploaded_video EXCEPT ![r] = name]
                 /\ Emit(r, <<Ev("upload", name)>>)
                 /\ Goto(r, "start")
            ELSE /\ UNCHANGED uploaded_video
                 /\ Emit(r, <<Ev("upload", name), Ev("widget_error", name)>>)
                 /\ Goto(r, "no_file")
    /\ Tick
    /\ UNCHANGED <<bound, start_time, elapsed, temp_dir, video_path,
                   audio_path, result, transcript, translations, idx, exc,
                   dirs, files>>

\* Lines 105-115: start_time and the progress bar.
Start(r) ==
    /\ pc[r] = "start"
    /\ start_time' = [start_time EXCEPT ![r] = now]
    /\ Bind(r, {"start_time", "progress_bar"})
    /\ Emit(r, <<Ev("progress", <<"0">>)>>)
    /\ Goto(r, "mktemp")
    /\ Tick
    /\ UNCHANGED <<uploaded_video, selected_languages, elapsed, temp_dir,
                   video_path, audio_path, result, transcript, translations,
                   idx, exc, dirs, files>>

\* A working directory of a fixed name, made with os.makedirs(exist_ok=True).
EnterTempShared(r) ==
    /\ pc[r] = "mktemp"
    /\ LET td == Append(TmpRoot, <<"t", "m", "p", "3">>)
           vp == JoinPath(td, sanitize_filename(uploaded_video[r]))
       IN  /\ dirs' = dirs \cup {td}
           /\ temp_dir' = [temp_dir EXCEPT ![r] = td]
           /\ video_path' = [video_path EXCEPT ![r] = vp]
           /\ audio_path' =
                [audio_path EXCEPT ![r] = with_suffix(vp, <<".", "m", "p", "3">>)]
           /\ Bind(r, {"temp_dir", "video_path", "audio_path"})
           /\ Emit(r, <<Ev("mkdtemp", <<>>)>>)
           /\ Goto(r, "open")
    /\ Tick
    /\ UNCHANGED <<uploaded_video, selected_languages, start_time, elapsed,
                   result, transcript, translations, idx, files, exc>>

\* Lines 119-121: tempfile.TemporaryDirectory() creates a directory under a
\* name no existing entry has, or fails; then the two paths are built.
EnterTemp(r) ==
    /\ pc[r] = "mktemp"
    /\ \/ \E d \in TmpNames :
            LET td == Append(TmpRoot, d)
                vp == JoinPath(td, sanitize_filename(uploaded_video[r]))
            IN  /\ td \notin dirs \cup files
                /\ dirs' = dirs \cup {td}
                /\ temp_dir' = [temp_dir EXCEPT ![r] = td]
                /\ video_path' = [video_path EXCEPT ![r] = vp]
                /\ audio_path' =
                     [audio_path EXCEPT ![r] = with_suffix(vp, <<".", "m", "p", "3">>)]
                /\ Bind(r, {"temp_dir", "video_path", "audio_path"})
                /\ Emit(r, <<Ev("mkdtemp", <<>>)>>)
                /\ Goto(r, "open")
                /\ UNCHANGED exc
       \/ /\ exc' = [exc EXCEPT ![r] = Raise("OSError", <<NoSpaceDiag>>)]
          /\ Goto(r, "except")
          /\ UNCHANGED <<dirs, temp_dir, video_path, audio_path, bound, ev>>
    /\ Tick
    /\ UNCHANGED <<uploaded_video, selected_languages, start_time, elapsed,
                   result, transcript, translations, idx, files>>

\* Lines 123-127: the upload is written to video_path and its hash logged.
\* open() fails on a directory; the write may fail after the file exists.
WriteVideo(r) ==
    /\ pc[r] = "open"
    /\ LET loc == Resolve(video_path[r]) IN
       IF loc \in dirs
       THEN /\ Throw(r, Raise("IsADirectoryError", <<IsADirDiag>>))
            /\ UNCHANGED <<files, bound, ev>>
       ELSE IF SubSeq(loc, 1, Len(loc) - 1) \notin dirs
       THEN /\ Throw(r, Raise("FileNotFoundError", <<NoDirDiag>>))
            /\ UNCHANGED <<files, bound, ev>>
       ELSE /\ files' = files \cup {loc}
            /\ \/ /\ Bind(r, {"f", "file_hash"})
                  /\ Emit(r, <<Ev("staged", <<>>), Ev("log_info", <<"hash">>)>>)
                  /\ Goto(r, "ffmpeg")
                  /\ UNCHANGED exc
               \/ /\ Bind(r, {"f"})
                  /\ Throw(r, Raise("OSError", <<NoSpaceDiag>>))
                  /\ UNCHANGED ev
    /\ Tick
    /\ UNCHANGED <<uploaded_video, selected_languages, start_time, elapsed,
                   temp_dir, video_path, audio_path, result, transcript,
                   translations, idx, dirs>>

\* Lines 131-132: the transcode stage.
Transcode(r) ==
    /\ pc[r] = "ffmpeg"
    /\ \E outcome \in FfmpegOutcomes :
         LET e == convert_video_to_audio(outcome)
             call == <<Ev("call", <<"ffmpeg">>)>> \o convert_log(outcome)
                     \o <<Ev("ret", <<"ffmpeg", outcome>>)>>
         IN  /\ files' = IF outcome = "exit0"
                          THEN files \cup {Resolve(audio_path[r])}
                          ELSE files
             /\ IF e = NoExc
                THEN /\ Emit(r, Append(call, Ev("progress", <<"0.33">>)))
                     /\ Goto(r, "transcribe")
                     /\ UNCHANGED exc
                ELSE /\ Emit(r, call)
                     /\ Throw(r, e)
    /\ Tick
    /\ UNCHANGED <<uploaded_video, selected_languages, bound, start_time,
                   elapsed, temp_dir, video_path, audio_path, result,
                   transcript, translations, idx, dirs>>

\* Lines 135-141: the transcription stage, up to the empty translations dict.
Transcribe(r) ==
    /\ pc[r] = "transcribe"
    /\ \E outcome \in TranscribeOutcomes :
         LET e == transcribe_audio(outcome)
             call == <<Ev("call", <<"whisper">>)>> \o transcribe_log(outcome)
                     \o <<Ev("ret", <<"whisper", outcome>>)>>
         IN  IF e = NoExc
             THEN \E text \in Transcripts, c \in Confidences :
                  /\ result' = [result EXCEPT ![r] =
                                  [text |-> text, confidence |-> c]]
                  /\ transcript' = [transcript EXCEPT ![r] = text]
                  /\ translations' = [translations EXCEPT ![r] = <<>>]
                  /\ idx' = [idx EXCEPT ![r] = 1]
                  /\ Bind(r, {"result", "transcript", "translations"})
                  /\ Emit(r, call \o <<Ev("markdown", <<"Transkript", text>>),
                                       Ev("progress", <<"0.66">>)>>)
                  /\ Goto(r, "translate")
                  /\ UNCHANGED exc
             ELSE /\ Emit(r, call)
                  /\ Throw(r, e)
                  /\ UNCHANGED <<result, transcript, translations, idx, bound>>
    /\ Tick
    /\ UNCHANGED <<uploaded_video, selected_languages, start_time, elapsed,
                   temp_dir, video_path, audio_path, dirs, files>>

\* Lines 142-155: one iteration of the translation loop.  The lookup of
\* line 143 is made but the call is given the display name.
Translate(r) ==
    /\ pc[r] = "translate"
    /\ idx[r] <= Len(selected_languages[r])
    /\ \E outcome \in TranslateOutcomes :
         LET lang == selected_languages[r][idx[r]]
             target_language == SUPPORTED_LANGUAGES[lang]
             e == translate_text(lang, outcome)
             call == <<Ev("call", <<"translate", lang, transcript[r]>>)>>
                     \o translate_log(outcome)
                     \o <<Ev("ret", <<"translate", lang, outcome>>)>>
         IN  IF e = NoExc
             THEN \E translation \in Texts :
                  /\ translations' = [translations EXCEPT ![r] =
                                        DictSet(@, lang, translation)]
                  /\ idx' = [idx EXCEPT ![r] = @ + 1]
                  /\ Bind(r, {"lang", "target_language", "translation",
                              "download_file_name"})
                  /\ Emit(r, call \o
                             <<Ev("text", <<lang, translation>>),
                               Ev("expander", <<lang, translation>>)>>)
                  /\ UNCHANGED <<pc, exc>>
             ELSE /\ Emit(r, call)
                  /\ Bind(r, {"lang", "target_language"})
                  /\ Throw(r, e)
                  /\ UNCHANGED <<translations, idx>>
    /\ Tick
    /\ UNCHANGED <<uploaded_video, selected_languages, start_time, elapsed,
                   temp_dir, video_path, audio_path, result, transcript,
                   dirs, files>>

\* Line 157: the loop is exhausted and the bar is set to 1.0.
FinishTranslate(r) ==
    /\ pc[r] = "translate"
    /\ idx[r] > Len(selected_languages[r])
    /\ Emit(r, <<Ev("progress", <<"1.0">>)>>)
    /\ Goto(r, "cleanup")
    /\ Tick
    /\ UNCHANGED <<uploaded_video, selected_languages, bound, start_time,
                   elapsed, temp_dir, video_path, audio_path, result,
                   transcript, translations, idx, exc, dirs, files>>

\* A temporary directory that is made but never removed (tempfile.mkdtemp).
CleanupNothing(paths, td) == paths

\* What TemporaryDirectory.__exit__ leaves of a set of paths.
Cleanup(paths, td) == {p \in paths : ~IsPrefix(td, p)}

\* Line 119, leaving the "with" block normally or by an exception: the
\* directory and everything in it is removed.
ExitTemp(r) ==
    /\ pc[r] = "cleanup"
    /\ dirs' = Cleanup(dirs, temp_dir[r])
    /\ files' = Cleanup(files, temp_dir[r])
    /\ Emit(r, <<Ev("rmtree", <<>>)>>)
    /\ Goto(r, IF exc[r] = NoExc THEN "success" ELSE "except")
    /\ Tick
    /\ UNCHANGED <<uploaded_video, selected_languages, bound, start_time,
                   elapsed, temp_dir, video_path, audio_path, result,
                   transcript, translations, idx, exc>>

\* Lines 159-160.
Success(r) ==
    /\ pc[r] = "success"
    /\ Emit(r, <<Ev("success", <<"Tum islemler basariyla tamamlandi!">>),
                 Ev("balloons", <<>>)>>)
    /\ Goto(r, "finally")
    /\ Tick
    /\ UNCHANGED <<uploaded_video, selected_languages, bound, start_time,
                   elapsed, temp_dir, video_path, audio_path, result,
                   transcript, translations, idx, exc, dirs, files>>

\* The report placed at the end of the handler instead of a "finally"
\* block: after the error notice the script is over.
ExceptSkipsReport(r) ==
    /\ pc[r] = "except"
    /\ Emit(r, <<Ev("error", <<"Islem sirasinda bir hata olustu:">> \o exc[r].msg),
                 Ev("log_exception", exc[r].msg)>>)
    /\ Bind(r, {"e"})
    /\ Goto(r, "done")
    /\ Tick
    /\ UNCHANGED <<uploaded_video, selected_languages, start_time, elapsed,
                   temp_dir, video_path, audio_path, result, transcript,
                   translations, idx, exc, dirs, files>>

\* Lines 162-164: the message shown is the text of the exception.
Except(r) ==
    /\ pc[r] = "except"
    /\ Emit(r, <<Ev("error", <<"Islem sirasinda bir hata olustu:">> \o exc[r].msg),
                 Ev("log_exception", exc[r].msg)>>)
    /\ Bind(r, {"e"})
    /\ Goto(r, "finally")
    /\ Tick
    /\ UNCHANGED <<uploaded_video, selected_languages, start_time, elapsed,
                   temp_dir, video_path, audio_path, result, transcript,
                   translations, idx, exc, dirs, files>>

\* A report that takes a result without a numeric confidence for no result.
ConfidenceReportStrict(r) ==
    IF "result" \in bound[r] /\ result[r].confidence = "number"
    THEN Ev("sidebar", <<"Ses Tanima Dogrulugu", "number">>)
    ELSE Ev("sidebar", <<"Ses Tanima Dogrulugu", "Henuz hesaplanmadi">>)

\* Lines 171-178: the confidence line of the sidebar.
ConfidenceReport(r) ==
    IF "result" \in bound[r]
    THEN (IF result[r].confidence = "number"
          THEN Ev("sidebar", <<"Ses Tanima Dogrulugu", "number">>)
          ELSE Ev("sidebar", <<"Ses Tanima Dogrulugu", "Mevcut degil">>))
    ELSE Ev("sidebar", <<"Ses Tanima Dogrulugu", "Henuz hesaplanmadi">>)

\* Lines 166-178: the elapsed time and the confidence are reported.
Finally(r) ==
    /\ pc[r] = "finally"
    /\ elapsed' = [elapsed EXCEPT ![r] = now - start_time[r]]
    /\ Bind(r, {"end_time"})
    /\ Emit(r, <<Ev("duration", <<>>), ConfidenceReport(r)>>)
    /\ Goto(r, "done")
    /\ Tick
    /\ UNCHANGED <<uploaded_video, selected_languages, start_time, temp_dir,
                   video_path, audio_path, result, transcript, translations,
                   idx, exc, dirs, files>>

\* One step of the script of run r, once it has a file.
Step(r) ==
    \/ Start(r) \/ EnterTemp(r) \/ WriteVideo(r) \/ Transcode(r)
    \/ Transcribe(r) \/ Translate(r) \/ FinishTranslate(r) \/ ExitTemp(r)
    \/ Success(r) \/ Except(r) \/ Finally(r)

\* ---------------------------------------------------------- specifications
\* One script run, over every upload name and language selection.
Next == Upload("r1", UploadNames, LangSeqs) \/ Step("r1")

Spec == Init /\ [][Next]_vars

\* The script thread runs to its end: every stage call returns.
FairSpec == Spec /\ WF_vars(Step("r1"))

\* The two path-building lines applied to every file name a request can
\* carry, the ones the browser-side extension filter would not send too.
PathAlphabet == {"a", ".", "/", " ", "_", "?"}

RECURSIVE NamesOfLen(_)
NamesOfLen(n) ==
    IF n = 0 THEN {<<>>}
    ELSE {Append(s, c) : s \in NamesOfLen(n - 1), c \in PathAlphabet}

AllNames == UNION {NamesOfLen(n) : n \in 0..MaxNameLen}

PathInit ==
    /\ pc = [r \in Runs |-> IF r = "r1" THEN "start" ELSE "idle"]
    /\ \E name \in AllNames :
         uploaded_video = [r \in Runs |-> IF r = "r1" THEN name ELSE <<>>]
    /\ InitRest

PathNext == Start("r1") \/ EnterTemp("r1") \/ WriteVideo("r1")

PathSpec == PathInit /\ [][PathNext]_vars

\* Two sessions that upload a file of the same name at the same time; their
\* script threads interleave at every external call.
ConcNames == {<<"a", ".", "m", "p", "4">>}
\* The empty selection: the loop body of line 142 never runs.
ConcSelections == {<<>>}

ConcStep(r) ==
    \/ Start(r) \/ EnterTemp(r) \/ WriteVideo(r) \/ Transcode(r)
    \/ Transcribe(r) \/ FinishTranslate(r) \/ ExitTemp(r) \/ Success(r)
    \/ Except(r) \/ Finally(r)

ConcNext == \E r \in Runs : Upload(r, ConcNames, ConcSelections) \/ ConcStep(r)

ConcSpec == Init /\ [][ConcNext]_vars

\* ------------------------------------------------------------------ claims
IsCall(e, tool) == e.what = "call" /\ e.arg[1] = tool
IsRet(e, tool) == e.what = "ret" /\ e.arg[1] = tool
IsFailure(e) == e.what = "ret" /\ e.arg[Len(e.arg)] \notin {"exit0", "ok"}
Events(r) == Range(ev[r])
\* The languages whose translation call failed, and those with an entry.
FailedLangs(r) ==
    {e.arg[2] : e \in {x \in Events(r) : IsRet(x, "translate") /\ IsFailure(x)}}
TranslatedLangs(r) == {translations[r][i][1] : i \in DOMAIN translations[r]}
Finished(r) == pc[r] = "done"

\* C1: once a run has finished, whatever step failed, the temporary
\* directory it created and everything below it no longer exist.
C1_TempDirRemoved ==
    \A r \in Runs :
        (pc[r] \in {"finally", "done"} /\ temp_dir[r] # <<>>) =>
            \A p \in dirs \cup files : ~IsPrefix(temp_dir[r], p)

\* A run that staged the video, extracted the audio, translated one language
\* and failed on the next has finished.
C1_Witness ==
    /\ Finished("r1")
    /\ temp_dir["r1"] # <<>>
    /\ exc["r1"].type = "RuntimeError"
    /\ Len(translations["r1"]) >= 1

\* C2: the fan-out of a finished run that reached the translation stage
\* holds exactly one result, a text or an error, per requested language.
C2_FanOutComplete ==
    \A r \in Runs :
        (Finished(r) /\ "translations" \in bound[r]) =>
            Cardinality(TranslatedLangs(r) \cup FailedLangs(r))
                = Len(selected_languages[r])

\* C3: when the translation call of one language fails, the call is still
\* made for every other requested language of the run.
C3_SiblingsAttempted ==
    \A r \in Runs :
        (Finished(r) /\ FailedLangs(r) # {}) =>
            \A l \in Range(selected_languages[r]) :
                \E e \in Events(r) : IsCall(e, "translate") /\ e.arg[2] = l

\* C4: a run whose transcoding and transcription succeeded and in which some
\* but not all translations failed ends completed, with the successful
\* translations, and not with the run-level error.
C4_PartialFailureCompletes ==
    \A r \in Runs :
        (Finished(r) /\ FailedLangs(r) # {} /\ TranslatedLangs(r) # {}) =>
            /\ \E e \in Events(r) : e.what = "success"
            /\ \A e \in Events(r) : e.what # "error"

\* C5: the stages of a run are strictly ordered: whisper is called only
\* after ffmpeg succeeded, a translation only after whisper succeeded and on
\* the transcript it produced, and each call returns before the next is made.
C5_StagesOrdered ==
    \A r \in Runs : \A i \in DOMAIN ev[r] :
        LET e == ev[r][i] IN
        e.what = "call" =>
            /\ e.arg[1] = "whisper" =>
                 \E j \in 1..(i - 1) : ev[r][j] = Ev("ret", <<"ffmpeg", "exit0">>)
            /\ e.arg[1] = "translate" =>
                 /\ \E j \in 1..(i - 1) : ev[r][j] = Ev("ret", <<"whisper", "ok">>)
                 /\ "transcript" \in bound[r]
                 /\ e.arg[3] = transcript[r]
            /\ \A j \in 1..(i - 1) :
                 ev[r][j].what = "call" =>
                     \E k \in (j + 1)..(i - 1) : IsRet(ev[r][k], ev[r][j].arg[1])

\* A run that has called the translation of its second language.
C5_Witness ==
    /\ Len(translations["r1"]) = 2
    /\ \E e \in Events("r1") : IsCall(e, "translate")

\* C6: after a failed transcode or transcription the run is terminal: no
\* stage is called afterwards, the failed stage was called once, and the run
\* has no translations (and, for a transcode failure, no transcript).
C6_FailureTerminal ==
    \A r \in Runs : \A i \in DOMAIN ev[r] :
        LET e == ev[r][i] IN
        (IsFailure(e) /\ e.arg[1] \in {"ffmpeg", "whisper"}) =>
            /\ \A j \in (i + 1)..Len(ev[r]) : ev[r][j].what # "call"
            /\ Cardinality({j \in DOMAIN ev[r] : IsCall(ev[r][j], e.arg[1])}) = 1
            /\ pc[r] \in {"cleanup", "except", "finally", "done"}
            /\ "translations" \notin bound[r]
            /\ translations[r] = <<>>
            /\ e.arg[1] = "ffmpeg" =>
                 "transcript" \notin bound[r] /\ "result" \notin bound[r]

\* A finished run whose transcription failed.
C6_Witness ==
    /\ Finished("r1")
    /\ Ev("ret", <<"whisper", "error">>) \in Events("r1")

\* C7: every failure of the transcoding step reaches the caller as the
\* generic transcode failure, and no message shown carries a raw diagnostic.
C7_TranscodeFailureGeneric ==
    \A r \in Runs :
        (\E e \in Events(r) : IsRet(e, "ffmpeg") /\ IsFailure(e)) =>
            /\ exc[r] = Raise("RuntimeError", TranscodeMsg)
            /\ \A e \in Events(r) :
                 e.what = "error" => Range(e.arg) \cap RawDiagnostics = {}

\* C8: every failure of a language's translation call is raised as that
\* language's translation error with its generic message.
C8_TranslationFailureClassified ==
    \A r \in Runs : \A e \in Events(r) :
        (IsRet(e, "translate") /\ IsFailure(e)) =>
            exc[r] = Raise("RuntimeError", TranslateMsg(e.arg[2]))

\* C9: the sanitised name holds only alphanumeric, space, dot and underscore
\* characters, and neither path built from it is the temporary directory or
\* a location outside it.
C9_PathsInsideTempDir ==
    \A r \in Runs :
        "video_path" \in bound[r] =>
            /\ \A c \in Range(sanitize_filename(uploaded_video[r])) :
                 AllowedChar(c)
            /\ Inside(video_path[r], temp_dir[r])
            /\ Inside(audio_path[r], temp_dir[r])

\* C10: every started run eventually reports its elapsed time, once, and
\* after its last stage activity.
Started(r) == pc[r] \notin {"idle", "no_file"}
Reported(r) == elapsed[r] >= 0
StageActivity(e) ==
    e.what \in {"call", "ret", "progress", "markdown", "expander", "text",
                "mkdtemp", "staged", "rmtree", "success", "error"}
C10_ReportedOnceAtEnd ==
    \A r \in Runs :
        LET at == {i \in DOMAIN ev[r] : ev[r][i].what = "duration"} IN
        /\ Cardinality(at) <= 1
        /\ Reported(r) <=> at # {}
        /\ \A i \in at : \A j \in (i + 1)..Len(ev[r]) : ~StageActivity(ev[r][j])
C10_DurationReported ==
    /\ [] C10_ReportedOnceAtEnd
    /\ \A r \in {"r1"} : Started(r) ~> (Finished(r) /\ Reported(r))

\* A run that failed at the transcode stage has reported its elapsed time.
C10_Witness ==
    /\ Finished("r1")
    /\ Reported("r1")
    /\ exc["r1"] = Raise("RuntimeError", TranscodeMsg)

ProgressRank(value) ==
    CASE value = "0" -> 0 [] value = "0.33" -> 1 [] value = "0.66" -> 2
      [] value = "1.0" -> 3
C12_ProgressMonotone ==
    \A r \in Runs :
        /\ \A i \in DOMAIN ev[r] :
             LET e == ev[r][i]
                 Before(x) == \E j \in 1..(i - 1) : ev[r][j] = x
             IN  e.what = "progress" =>
                 /\ \A j \in 1..(i - 1) :
                      ev[r][j].what = "progress" =>
                          ProgressRank(ev[r][j].arg[1]) < ProgressRank(e.arg[1])
                 /\ e.arg[1] = "0.33" => Before(Ev("ret", <<"ffmpeg", "exit0">>))
                 /\ e.arg[1] = "0.66" => Before(Ev("ret", <<"whisper", "ok">>))
                 /\ e.arg[1] = "1.0" =>
                      \A l \in Range(selected_languages[r]) :
                          Before(Ev("ret", <<"translate", l, "ok">>))
        /\ (exc[r] # NoExc \/ \E e \in Events(r) : IsFailure(e)) =>
               Ev("progress", <<"1.0">>) \notin Events(r)

\* A run that translated two languages has shown 1.0.
C12_Witness ==
    /\ Len(translations["r1"]) = 2
    /\ Ev("progress", <<"1.0">>) \in Events("r1")

\* C13: in a run where no translation call fails, the call is made exactly
\* once per requested language, in the requested order, and the resulting
\* mapping lists the languages in that order.
IsTranslateCall(e) == IsCall(e, "translate")
CalledLangs(r) ==
    LET calls == SelectSeq(ev[r], IsTranslateCall) IN
    [i \in DOMAIN calls |-> calls[i].arg[2]]
MappedLangs(r) == [i \in DOMAIN translations[r] |-> translations[r][i][1]]
C13_OncePerLanguageInOrder ==
    \A r \in Runs :
        (Finished(r) /\ "translations" \in bound[r] /\ FailedLangs(r) = {}) =>
            /\ CalledLangs(r) = selected_languages[r]
            /\ MappedLangs(r) = selected_languages[r]

\* A finished run that translated its two languages without a failure.
C13_Witness ==
    /\ Finished("r1")
    /\ exc["r1"] = NoExc
    /\ Len(selected_languages["r1"]) = 2
    /\ Len(translations["r1"]) = 2

\* C14: concurrent runs, also of equally named uploads, have distinct
\* working directories while they are live, and no step of one run adds,
\* overwrites or removes anything in the directory of another live run.
Live(r) == pc[r] \in {"open", "ffmpeg", "transcribe", "translate", "cleanup"}
Under(td) == {p \in dirs \cup files : IsPrefix(td, p)}
C14_LiveRunsApart ==
    \A r \in Runs :
        Live(r) =>
            /\ temp_dir[r] \in dirs
            /\ Ev("staged", <<>>) \in Events(r) =>
                 Resolve(video_path[r]) \in files
            /\ Ev("ret", <<"ffmpeg", "exit0">>) \in Events(r) =>
                 Resolve(audio_path[r]) \in files
            /\ \A q \in Runs \ {r} :
                 Live(q) =>
                     /\ ~IsPrefix(temp_dir[r], temp_dir[q])
                     /\ Resolve(video_path[r]) # Resolve(video_path[q])
                     /\ Resolve(audio_path[r]) # Resolve(audio_path[q])
C14_OthersUntouched ==
    \A r \in Runs :
        (Live(r) /\ pc'[r] = pc[r] /\ ev'[r] = ev[r]) =>
            /\ temp_dir'[r] = temp_dir[r]
            /\ Under(temp_dir[r])' = Under(temp_dir[r])
C14_WorkingDirsIsolated ==
    /\ [] C14_LiveRunsApart
    /\ [][C14_OthersUntouched]_vars

\* Both runs are live with the same upload name, one with its audio written.
C14_Witness ==
    /\ Live("r1") /\ Live("r2")
    /\ uploaded_video["r1"] = uploaded_video["r2"]
    /\ Resolve(audio_path["r1"]) \in files
    /\ Resolve(video_path["r2"]) \in files

\* C15: a transcription result without a numeric confidence never fails the
\* run: the run goes on to the translations and reports the confidence as
\* not available; "not yet computed" is reported exactly when the run has no
\* transcription result.
Transcribed(r) == Ev("ret", <<"whisper", "ok">>) \in Events(r)
ConfidenceLine(r, text) ==
    Ev("sidebar", <<"Ses Tanima Dogrulugu", text>>) \in Events(r)
C15_ConfidenceOptional ==
    \A r \in Runs :
        /\ (Transcribed(r) /\ result[r].confidence # "number") =>
             /\ "translations" \in bound[r]
             /\ exc[r] # NoExc => FailedLangs(r) # {}
             /\ Finished(r) =>
                  /\ ConfidenceLine(r, "Mevcut degil")
                  /\ selected_languages[r] # <<>> =>
                       \E e \in Events(r) : IsCall(e, "translate")
        /\ Finished(r) =>
             (ConfidenceLine(r, "Henuz hesaplanmadi") <=> ~Transcribed(r))

\* A finished, successful run whose result carried a non-numeric confidence.
C15_Witness ==
    /\ Finished("r1")
    /\ Transcribed("r1")
    /\ result["r1"].confidence = "text"
    /\ exc["r1"] = NoExc
    /\ Len(translations["r1"]) >= 1

\* C16: the success notice is issued only when transcoding, transcription
\* and the translation of every selected language succeeded, and only after
\* the temporary directory was removed; no run issues both notices and every
\* finished run issues exactly one of them.
NoticesAt(r, what) == {i \in DOMAIN ev[r] : ev[r][i].what = what}
C16_OneNotice ==
    \A r \in Runs :
        /\ \A i \in NoticesAt(r, "success") :
             LET Before(x) == \E j \in 1..(i - 1) : ev[r][j] = x IN
             /\ Before(Ev("ret", <<"ffmpeg", "exit0">>))
             /\ Before(Ev("ret", <<"whisper", "ok">>))
             /\ \A l \in Range(selected_languages[r]) :
                  Before(Ev("ret", <<"translate", l, "ok">>))
             /\ \A e \in Events(r) : ~IsFailure(e)
             /\ Before(Ev("rmtree", <<>>))
             /\ Under(temp_dir[r]) = {}
        /\ NoticesAt(r, "success") = {} \/ NoticesAt(r, "error") = {}
        /\ Finished(r) =>
             Cardinality(NoticesAt(r, "success") \cup NoticesAt(r, "error")) = 1

\* A finished run with the success notice, and two translations.
C16_Witness ==
    /\ Finished("r1")
    /\ NoticesAt("r1", "success") # {}
    /\ Len(translations["r1"]) = 2

\* C17: at every point the languages with a recorded translation are a
\* prefix of the requested sequence, each entry is the text its call on the
\* run's transcript returned, and no entry is changed or removed later.
C17_EntriesAsReturned ==
    \A r \in Runs :
        /\ Len(translations[r]) <= Len(selected_languages[r])
        /\ MappedLangs(r) =
             SubSeq(selected_languages[r], 1, Len(translations[r]))
        /\ \A i \in DOMAIN translations[r] :
             LET lang == translations[r][i][1]
                 returned == {e \in Events(r) : e.what = "text" /\ e.arg[1] = lang}
             IN  /\ Ev("call", <<"translate", lang, transcript[r]>>) \in Events(r)
                 /\ returned = {Ev("text", translations[r][i])}
C17_EntriesKept ==
    \A r \in Runs : IsPrefix(translations[r], translations'[r])
C17_TranslationsPrefix ==
    /\ [] C17_EntriesAsReturned
    /\ [][C17_EntriesKept]_vars

\* The second of two requested languages has been recorded.
C17_Witness ==
    /\ Len(selected_languages["r1"]) = 2
    /\ Len(translations["r1"]) = 2
    /\ translations["r1"][1][2] # translations["r1"][2][2]
=============================================================================
